---- MODULE Spec2Model ----
(***************************************************************************)
(* port_scanner.py: a sequential TCP SYN scanner.                          *)
(*                                                                         *)
(* The state is the locals of port_scanner() and of the receive_packet()   *)
(* call in progress, the raw socket with its kernel receive queue, what    *)
(* the program printed, and the program counter.  The environment (DNS,    *)
(* ping, privileges, sendto errors, inbound traffic, the clock) is chosen  *)
(* nondeterministically inside the action of the line that consults it.    *)
(*                                                                         *)
(* Time is counted in ticks.  One tick is the shortest duration a          *)
(* select() call can be measured to take by the two perf_counter() reads   *)
(* around it; the 0.1 s budget of line 214 is Timeout ticks.               *)
(*                                                                         *)
(* Inbound packets are well-formed IPv4/TCP packets without IP options:    *)
(* they are kept as the two tuples struct.unpack yields for bytes 0..19    *)
(* and 20..39.  The probe's header is kept as the 20 bytes struct.pack     *)
(* yields.                                                                 *)
(***************************************************************************)
EXTENDS Integers, Sequences, FiniteSets, TLC

(* ------------------------------ bounds -------------------------------- *)

\* range(1, 1025) of line 237 scaled down: the ports scanned are 1..LastPort
LastPort == 2

\* timeout = 0.1 (line 214) in ticks
Timeout == 3

\* most packets the kernel receive queue of the raw socket holds
MaxQueue == 1

\* most ticks recvfrom + parse_packet + the comparison take for one packet
MaxProc == 1

\* most ticks by which the measured duration of select() exceeds the wait
MaxOvershoot == 1

\* longest byte string given to calculate_checksum on its own
MaxLen == 6

(* ----------------------------- constants ------------------------------ *)

Ports == 1..LastPort

\* random.randint(49152, 65535), line 67: the two ends of the range
SourcePorts == {49152, 65535}

\* random.randint(0, 4294967295), line 68: the two ends of the range.  A
\* 32-bit number is kept as its high and low 16-bit halves.
SeqNumbers == {<<0, 0>>, <<65535, 65535>>}

\* addresses as the four bytes inet_aton / the IP header hold
TargetAddr == <<93, 184, 216, 34>>
LocalAddr == <<10, 0, 0, 2>>
OtherAddr == <<10, 0, 0, 9>>

\* the mask 0x12 of line 246
SYN_ACK == 18

\* TCP flag bytes of inbound packets: SYN+ACK, RST+ACK, SYN+ACK+RST
Flags == {18, 20, 22}

MsgResolution == "Address resolution failed."
MsgUnreachable == "Host unreachable."
MsgRoot == "This program must be run as root."

VARIABLES
  pc,               \* position in port_scanner()
  env,              \* the network the scan runs against (fixed per run)
  message,          \* failure message printed (lines 221, 225, 233)
  printed,          \* ports printed by lines 249-250
  destination_ip,   \* line 219
  source_ip,        \* line 228
  sock,             \* the raw socket of line 231
  acquired,         \* number of raw sockets created
  rcvbuf,           \* kernel receive queue of the raw socket
  open_ports,       \* line 236
  destination_port, \* loop variable of line 237 (0: not yet bound)
  source_port,      \* line 238
  header,           \* line 238
  packet,           \* line 240
  time_left,        \* receive_packet, line 172
  busy,             \* ticks spent in lines 182-196 during this receive_packet
  discarded,        \* this receive_packet read a packet and dropped it
  sawMatch,         \* this receive_packet read a packet of the expected 4-tuple
  sawStale,         \* this receive_packet read a reply to an earlier port's probe
  exit_line,        \* the return of receive_packet taken: 180, 193 or 196
  events,           \* sends and receive returns so far
  total             \* calculate_checksum, lines 144-157, called on its own

vars == <<pc, env, message, printed, destination_ip, source_ip, sock, acquired,
          rcvbuf, open_ports, destination_port, source_port, header, packet,
          time_left, busy, discarded, sawMatch, sawStale, exit_line, events, total>>

(* ------------------------------ helpers ------------------------------- *)

Range(s) == {s[i] : i \in DOMAIN s}

RECURSIVE BitAnd(_, _)
BitAnd(a, b) ==
  IF a = 0 \/ b = 0 THEN 0
  ELSE (a % 2) * (b % 2) + 2 * BitAnd(a \div 2, b \div 2)

\* socket.inet_ntoa: four bytes to dotted-quad text
inet_ntoa(b) ==
  ToString(b[1]) \o "." \o ToString(b[2]) \o "." \o ToString(b[3]) \o "." \o ToString(b[4])

\* an inbound packet as struct.unpack("!BBHHHBBH4s4s") of bytes 0..19 and
\* struct.unpack("!HHLLBBHHH") of bytes 20..39 see it
Packet(src, dst, sport, dport, flags) ==
  [ip |-> <<69, 0, 40, 0, 0, 64, 6, 0, src, dst>>,
   tcp |-> <<sport, dport, 0, 0, 80, flags, 512, 0, 0>>]

\* the value None of `packet`
NoPacket == [ip |-> <<>>, tcp |-> <<>>]

\* ip_header[8:10] and tcp_header[0:2], zero-based in the source
parse_packet(p) == <<inet_ntoa(p.ip[9]), inet_ntoa(p.ip[10]), p.tcp[1], p.tcp[2]>>

\* packet[33]: byte 13 of the TCP header, the sixth unpacked field
get_flags(p) == p.tcp[6]

\* the probe's own source port is not compared
ValidateNoSourcePort(parsed, src_ip, dst_ip, sport, dport) ==
  /\ parsed[1] = dst_ip
  /\ parsed[2] = src_ip
  /\ parsed[3] = dport

\* the responder's port is not compared
ValidateNoDestinationPort(parsed, src_ip, dst_ip, sport, dport) ==
  /\ parsed[1] = dst_ip
  /\ parsed[2] = src_ip
  /\ parsed[4] = sport

\* the comparison of lines 187-192
Validate(parsed, src_ip, dst_ip, sport, dport) ==
  /\ parsed[1] = dst_ip
  /\ parsed[2] = src_ip
  /\ parsed[3] = dport
  /\ parsed[4] = sport

\* the budget never shrinks
ChargeNothing(left, end_select) == left

\* line 177
Charge(left, end_select) == left - end_select

\* gives up after the first packet that does not match
GiveUp(left) == TRUE

\* the budget test lets a budget of zero pass
ExhaustedBelowZero(left) == left < 0

\* line 195
Exhausted(left) == left <= 0

\* either bit of the mask is enough
IsSynAckAny(flags) == BitAnd(flags, SYN_ACK) # 0

\* the mask is 0x10: only ACK is tested
IsAck(flags) == BitAnd(flags, 16) = 16

\* the flag byte is compared with 0x12 instead of masked
IsSynAckExact(flags) == flags = SYN_ACK

\* line 246
IsSynAck(flags) == BitAnd(flags, SYN_ACK) = SYN_ACK

RECURSIVE BitOr(_, _)
BitOr(a, b) ==
  IF a = 0 THEN b
  ELSE IF b = 0 THEN a
  ELSE (IF a % 2 = 1 \/ b % 2 = 1 THEN 1 ELSE 0) + 2 * BitOr(a \div 2, b \div 2)

\* x << k
Shl(x, k) == x * (2 ^ k)

\* struct.pack "!H" and "!L": big-endian bytes
PackH(x) == <<x \div 256, x % 256>>
PackL(x) == PackH(x[1]) \o PackH(x[2])

\* socket.inet_aton: dotted-quad text to the four bytes it names
inet_aton(text) ==
  CHOOSE b \in {TargetAddr, LocalAddr, OtherAddr} : inet_ntoa(b) = text

\* lines 146-148: the sum of the 16-bit words from byte i on
RECURSIVE SumWords(_, _)
SumWords(bytes, i) ==
  IF i > Len(bytes) THEN 0
  ELSE Shl(bytes[i], 8) + (IF i + 1 <= Len(bytes) THEN bytes[i + 1] ELSE 0)
         + SumWords(bytes, i + 2)

\* the carry is added once only
FoldOnce(t) == IF t \div 65536 # 0 THEN (t \div 65536) + (t % 65536) ELSE t

\* lines 151-152
RECURSIVE FoldCarry(_)
FoldCarry(t) ==
  IF t \div 65536 # 0 THEN FoldCarry((t \div 65536) + (t % 65536)) ELSE t

\* lines 142-157; ~t & 0xFFFF at line 155.  The argument is a value, as in
\* the call: it is evaluated once.
calculate_checksum(bytes) ==
  LET total_of(header_bytes) ==
        (-FoldCarry(SumWords(header_bytes, 1)) - 1) % 65536
  IN CHOOSE t \in {total_of(b) : b \in {bytes}} : TRUE

\* syn and reset change places
pack_flags_swapped(cwr, ece, urg, ack, push, reset, syn, fin) ==
  BitOr(BitOr(BitOr(BitOr(BitOr(BitOr(BitOr(
    Shl(cwr, 7), Shl(ece, 6)), Shl(urg, 5)), Shl(ack, 4)), Shl(push, 3)),
    Shl(syn, 2)), Shl(reset, 1)), fin)

\* lines 90-99
pack_flags(cwr, ece, urg, ack, push, reset, syn, fin) ==
  BitOr(BitOr(BitOr(BitOr(BitOr(BitOr(BitOr(
    Shl(cwr, 7), Shl(ece, 6)), Shl(urg, 5)), Shl(ack, 4)), Shl(push, 3)),
    Shl(reset, 2)), Shl(syn, 1)), fin)

\* struct.pack("!HHLLBBHHH", ...) of lines 101-112 and 126-137
pack_header(sport, dport, seq, ackn, hdr_res_ae, flags, window, checksum, urgent) ==
  PackH(sport) \o PackH(dport) \o PackL(seq) \o PackL(ackn) \o <<hdr_res_ae, flags>>
    \o PackH(window) \o PackH(checksum) \o PackH(urgent)

\* lines 64-139; the two random draws of lines 67-68 are the last two
\* arguments, and the source port returned with the header is sport
build_header(src_ip, dst_ip, dport, sport, seq) ==
  LET hdr_res_ae == BitOr(BitOr(Shl(5, 4), Shl(0, 1)), 0)
      flags == pack_flags(0, 0, 0, 0, 0, 0, 1, 0)
      blank == pack_header(sport, dport, seq, <<0, 0>>, hdr_res_ae, flags, 512, 0, 0)
      pseudo_header ==
        inet_aton(src_ip) \o inet_aton(dst_ip) \o <<0, 6>> \o PackH(Len(blank))
      checksum == calculate_checksum(blank \o pseudo_header)
  IN pack_header(sport, dport, seq, <<0, 0>>, hdr_res_ae, flags, 512, checksum, 0)

\* no header built yet
NoHeader == <<>>

\* the fields of the segment a header's bytes carry on the wire
SourcePortOf(h) == h[1] * 256 + h[2]
DestinationPortOf(h) == h[3] * 256 + h[4]
SequenceNumberOf(h) == <<h[5] * 256 + h[6], h[7] * 256 + h[8]>>
AckNumberOf(h) == <<h[9] * 256 + h[10], h[11] * 256 + h[12]>>
DataOffsetOf(h) == h[13] \div 16
FlagsOf(h) == h[14]
UrgentPointerOf(h) == h[19] * 256 + h[20]

\* the port goes to the front
prepend(ports, port) == <<port>> \o ports

\* line 247
append(ports, port) == Append(ports, port)

(* ---------------------------- environment ----------------------------- *)

\* quiet: only the scanned host's prompt answers reach the socket, SYN+ACK
\* for the ports of S, RST or nothing for the others.  Otherwise any packet
\* may arrive at any time.
Envs ==
  {[quiet |-> TRUE, S |-> s] : s \in SUBSET Ports}
    \cup {[quiet |-> FALSE, S |-> {}]}

\* the 4-tuple an answer to the outstanding probe carries
Expected(p) ==
  /\ p.ip[9] = TargetAddr
  /\ p.ip[10] = LocalAddr
  /\ p.tcp[1] = destination_port
  /\ p.tcp[2] = source_port

\* a reply of the scanned host to the probe of an earlier port
Stale(p) ==
  /\ p.ip[9] = TargetAddr
  /\ p.ip[10] = LocalAddr
  /\ p.tcp[1] \in 1..(destination_port - 1)

\* packets that may arrive while the probe (source_port, destination_port)
\* is outstanding: answers to it with any flags, and packets that differ
\* from its 4-tuple in one field (a late answer to the previous port's
\* probe, an answer to another ephemeral port, another sender, another
\* receiver)
Traffic ==
  {Packet(TargetAddr, LocalAddr, destination_port, source_port, f) : f \in Flags}
    \cup {Packet(TargetAddr, LocalAddr, destination_port, sp, SYN_ACK) :
            sp \in SourcePorts \ {source_port}}
    \cup {Packet(TargetAddr, LocalAddr, n, sp, SYN_ACK) :
            n \in {destination_port - 1} \cap Ports,
            sp \in SourcePorts}
    \cup {Packet(OtherAddr, LocalAddr, destination_port, source_port, SYN_ACK),
          Packet(TargetAddr, OtherAddr, destination_port, source_port, SYN_ACK)}

\* what reaches the socket during one wait or one packet's processing
Arrivals(queued) ==
  IF env.quiet
    THEN {<<>>}
    ELSE {<<>>} \cup (IF queued < MaxQueue THEN {<<x>> : x \in Traffic} ELSE {})

\* the quiet host's answer to the outstanding probe
Answers ==
  IF destination_port \in env.S
    THEN {<<Packet(TargetAddr, LocalAddr, destination_port, source_port, SYN_ACK)>>}
    ELSE {<<>>, <<Packet(TargetAddr, LocalAddr, destination_port, source_port, 20)>>}

\* durations the two perf_counter() reads around select() can measure:
\* data already queued, data arriving during the wait, nothing arriving
SelectTimes(queued, arrived, left) ==
  IF queued > 0 THEN {1}
  ELSE IF arrived > 0 THEN 1..(left + MaxOvershoot)
  ELSE left..(left + MaxOvershoot)

(* ------------------------------- Init --------------------------------- *)

Init ==
  /\ pc = "Resolving"
  /\ env \in Envs
  /\ message = ""
  /\ printed = <<>>
  /\ destination_ip = ""
  /\ source_ip = ""
  /\ sock = "none"
  /\ acquired = 0
  /\ rcvbuf = <<>>
  /\ open_ports = <<>>
  /\ destination_port = 0
  /\ source_port = 0
  /\ header = NoHeader
  /\ packet = NoPacket
  /\ time_left = 0
  /\ busy = 0
  /\ discarded = FALSE
  /\ sawMatch = FALSE
  /\ sawStale = FALSE
  /\ exit_line = 0
  /\ events = <<>>
  /\ total = 0

recvVars == <<time_left, busy, discarded, sawMatch, sawStale, exit_line>>
scanVars == <<open_ports, destination_port, source_port, header, packet>>
setupVars == <<message, printed, destination_ip, source_ip, sock, acquired>>

(* ------------------------------ actions ------------------------------- *)

\* the reachability check is passed over
ResolveSkipsCheck ==
  /\ pc = "Resolving"
  /\ \/ /\ destination_ip' = inet_ntoa(TargetAddr)
        /\ pc' = "SourceIp"
        /\ UNCHANGED message
     \/ /\ message' = MsgResolution
        /\ pc' = "ResolutionFailed"
        /\ UNCHANGED destination_ip
  /\ UNCHANGED <<total, env, printed, source_ip, sock, acquired, rcvbuf, scanVars,
                 recvVars, events>>

\* lines 218-222
Resolve ==
  /\ pc = "Resolving"
  /\ \/ /\ destination_ip' = inet_ntoa(TargetAddr)
        /\ pc' = "ReachabilityCheck"
        /\ UNCHANGED message
     \/ /\ message' = MsgResolution
        /\ pc' = "ResolutionFailed"
        /\ UNCHANGED destination_ip
  /\ UNCHANGED <<total, env, printed, source_ip, sock, acquired, rcvbuf, scanVars,
                 recvVars, events>>

\* the return of line 226 is missing
CheckReachableNoReturn ==
  /\ pc = "ReachabilityCheck"
  /\ \E returncode \in {0, 1} :
       IF returncode # 0
         THEN /\ message' = MsgUnreachable
              /\ pc' = "SourceIp"
         ELSE /\ pc' = "SourceIp"
              /\ UNCHANGED message
  /\ UNCHANGED <<total, env, printed, destination_ip, source_ip, sock, acquired,
                 rcvbuf, scanVars, recvVars, events>>

\* lines 224-226, is_host_reachable lines 44-52
CheckReachable ==
  /\ pc = "ReachabilityCheck"
  /\ \E returncode \in {0, 1} :
       IF returncode # 0
         THEN /\ message' = MsgUnreachable
              /\ pc' = "HostUnreachable"
         ELSE /\ pc' = "SourceIp"
              /\ UNCHANGED message
  /\ UNCHANGED <<total, env, printed, destination_ip, source_ip, sock, acquired,
                 rcvbuf, scanVars, recvVars, events>>

\* line 228, get_source_ip lines 55-61
GetSourceIp ==
  /\ pc = "SourceIp"
  /\ source_ip' = inet_ntoa(LocalAddr)
  /\ pc' = "SocketAcquisition"
  /\ UNCHANGED <<total, env, message, printed, destination_ip, sock, acquired, rcvbuf,
                 scanVars, recvVars, events>>

\* lines 230-236
AcquireSocket ==
  /\ pc = "SocketAcquisition"
  /\ \/ /\ sock' = "open"
        /\ acquired' = acquired + 1
        /\ open_ports' = <<>>
        /\ pc' = "loop"
        /\ UNCHANGED message
     \/ /\ message' = MsgRoot
        /\ pc' = "PermissionDenied"
        /\ UNCHANGED <<sock, acquired, open_ports>>
  /\ UNCHANGED <<total, env, printed, destination_ip, source_ip, rcvbuf,
                 destination_port, source_port, header, packet, recvVars, events>>

\* a port whose receive gave nothing is probed a second time
BuildProbeRetry ==
  /\ pc = "loop"
  /\ LET again ==
           /\ destination_port >= 1
           /\ packet = NoPacket
           /\ Cardinality({i \in DOMAIN events :
                             events[i] = <<"send", destination_port>>}) < 2
     IN IF again
          THEN destination_port' = destination_port
          ELSE /\ destination_port < LastPort
               /\ destination_port' = destination_port + 1
  /\ \E sp \in SourcePorts, seq \in SeqNumbers :
       /\ source_port' = sp
       /\ header' = build_header(source_ip, destination_ip, destination_port', sp, seq)
  /\ packet' = NoPacket
  /\ pc' = "send"
  /\ UNCHANGED <<total, env, setupVars, rcvbuf, open_ports, recvVars, events>>

\* lines 237-238: the next port of the range, and its probe.  `packet` keeps
\* the previous port's value in the source until line 240 assigns it again;
\* it is not read in between and is dropped here.
BuildProbe ==
  /\ pc = "loop"
  /\ destination_port < LastPort
  /\ destination_port' = destination_port + 1
  /\ \E sp \in SourcePorts, seq \in SeqNumbers :
       /\ source_port' = sp
       /\ header' = build_header(source_ip, destination_ip, destination_port', sp, seq)
  /\ packet' = NoPacket
  /\ pc' = "send"
  /\ UNCHANGED <<total, env, setupVars, rcvbuf, open_ports, recvVars, events>>

\* the probe is sent and the loop goes on without receiving
SendPacketNoReceive ==
  /\ pc = "send"
  /\ \/ /\ events' = Append(events, <<"send", DestinationPortOf(header)>>)
        /\ header' = NoHeader
        /\ pc' = "loop"
     \/ /\ pc' = "UnhandledError"
        /\ UNCHANGED <<events, header>>
  /\ UNCHANGED <<total, env, setupVars, rcvbuf, open_ports, destination_port,
                 source_port, packet, recvVars>>

\* line 239 with send_packet lines 160-161; on success the call of line 240
\* enters receive_packet (line 172).  An OSError of sendto is caught nowhere.
\* `header` is not read after line 239 and is dropped here.
SendPacket ==
  /\ pc = "send"
  /\ \/ /\ events' = Append(events, <<"send", DestinationPortOf(header)>>)
        /\ header' = NoHeader
        /\ time_left' = Timeout
        /\ busy' = 0
        /\ discarded' = FALSE
        /\ sawMatch' = FALSE
        /\ sawStale' = FALSE
        /\ exit_line' = 0
        /\ pc' = "select"
     \/ /\ pc' = "UnhandledError"
        /\ UNCHANGED <<events, header, recvVars>>
  /\ UNCHANGED <<total, env, setupVars, rcvbuf, open_ports, destination_port,
                 source_port, packet>>

\* lines 174-180
Select ==
  /\ pc = "select"
  /\ \E a \in (IF env.quiet THEN Answers ELSE Arrivals(Len(rcvbuf))) :
     \E end_select \in SelectTimes(Len(rcvbuf), Len(a), time_left) :
       /\ time_left' = Charge(time_left, end_select)
       /\ rcvbuf' = rcvbuf \o a
       /\ IF rcvbuf' = <<>>
            THEN /\ packet' = NoPacket
                 /\ exit_line' = 180
                 /\ events' = Append(events, <<"recv", destination_port>>)
                 /\ pc' = "classify"
            ELSE /\ pc' = "read"
                 /\ UNCHANGED <<packet, exit_line, events>>
  /\ UNCHANGED <<total, env, setupVars, open_ports, destination_port, source_port,
                 header, busy, discarded, sawMatch, sawStale>>

\* a matching packet without SYN and ACK is passed over like a stranger
ReadWaitsForSynAck ==
  /\ pc = "read"
  /\ \E proc \in 0..MaxProc :
     \E a \in (IF proc = 0 THEN {<<>>} ELSE Arrivals(Len(rcvbuf) - 1)) :
       LET pkt == Head(rcvbuf)
           parsed == parse_packet(pkt)
       IN /\ rcvbuf' = Tail(rcvbuf) \o a
          /\ busy' = busy + proc
          /\ discarded' = (discarded \/ ~Expected(pkt))
          /\ sawMatch' = (sawMatch \/ Expected(pkt))
          /\ sawStale' = (sawStale \/ Stale(pkt))
          /\ IF /\ Validate(parsed, source_ip, destination_ip, source_port,
                            destination_port)
                /\ IsSynAck(get_flags(pkt))
               THEN /\ packet' = pkt
                    /\ exit_line' = 193
                    /\ events' = Append(events, <<"recv", destination_port>>)
                    /\ pc' = "classify"
               ELSE IF Exhausted(time_left)
                 THEN /\ packet' = NoPacket
                      /\ exit_line' = 196
                      /\ events' = Append(events, <<"recv", destination_port>>)
                      /\ pc' = "classify"
                 ELSE /\ pc' = "select"
                      /\ UNCHANGED <<packet, exit_line, events>>
  /\ UNCHANGED <<total, env, setupVars, open_ports, destination_port, source_port,
                 header, time_left>>

\* lines 182-196
Read ==
  /\ pc = "read"
  /\ \E proc \in 0..MaxProc :
     \E a \in (IF proc = 0 THEN {<<>>} ELSE Arrivals(Len(rcvbuf) - 1)) :
       LET pkt == Head(rcvbuf)
           parsed == parse_packet(pkt)
       IN /\ rcvbuf' = Tail(rcvbuf) \o a
          /\ busy' = busy + proc
          /\ discarded' = (discarded \/ ~Expected(pkt))
          /\ sawMatch' = (sawMatch \/ Expected(pkt))
          /\ sawStale' = (sawStale \/ Stale(pkt))
          /\ IF Validate(parsed, source_ip, destination_ip, source_port,
                         destination_port)
               THEN /\ packet' = pkt
                    /\ exit_line' = 193
                    /\ events' = Append(events, <<"recv", destination_port>>)
                    /\ pc' = "classify"
               ELSE IF Exhausted(time_left)
                 THEN /\ packet' = NoPacket
                      /\ exit_line' = 196
                      /\ events' = Append(events, <<"recv", destination_port>>)
                      /\ pc' = "classify"
                 ELSE /\ pc' = "select"
                      /\ UNCHANGED <<packet, exit_line, events>>
  /\ UNCHANGED <<total, env, setupVars, open_ports, destination_port, source_port,
                 header, time_left>>

\* lines 243-247; the frame of receive_packet is gone
Classify ==
  /\ pc = "classify"
  /\ open_ports' =
       IF packet # NoPacket /\ IsSynAck(get_flags(packet))
         THEN append(open_ports, destination_port)
         ELSE open_ports
  /\ time_left' = 0
  /\ busy' = 0
  /\ discarded' = FALSE
  /\ sawMatch' = FALSE
  /\ sawStale' = FALSE
  /\ exit_line' = 0
  /\ pc' = "loop"
  /\ UNCHANGED <<total, env, setupVars, rcvbuf, destination_port, source_port, header,
                 packet, events>>

\* the range of line 237 is exhausted; lines 249-250
Report ==
  /\ pc = "loop"
  /\ destination_port = LastPort
  /\ printed' = open_ports
  /\ pc' = "Done"
  /\ UNCHANGED <<total, env, message, destination_ip, source_ip, sock, acquired,
                 rcvbuf, scanVars, recvVars, events>>

Next ==
  \/ Resolve
  \/ CheckReachable
  \/ GetSourceIp
  \/ AcquireSocket
  \/ BuildProbe
  \/ SendPacket
  \/ Select
  \/ Read
  \/ Classify
  \/ Report

Spec == Init /\ [][Next]_vars

\* the single thread always takes its next step
FairSpec == Spec /\ WF_vars(Next)

(* ------------------ the two header functions alone -------------------- *)

\* byte values given to calculate_checksum: the two ends and a low one
ByteVals == {0, 1, 255}

ByteStrings == UNION {[1..n -> ByteVals] : n \in 0..MaxLen}

\* before any call of port_scanner(): no scan state
Idle ==
  /\ env = [quiet |-> TRUE, S |-> {}]
  /\ message = ""
  /\ printed = <<>>
  /\ sock = "none"
  /\ acquired = 0
  /\ rcvbuf = <<>>
  /\ open_ports = <<>>
  /\ packet = NoPacket
  /\ time_left = 0
  /\ busy = 0
  /\ discarded = FALSE
  /\ sawMatch = FALSE
  /\ sawStale = FALSE
  /\ exit_line = 0
  /\ events = <<>>

\* a call calculate_checksum(header), line 142
ChecksumInit ==
  /\ pc = "calculate_checksum"
  /\ header \in ByteStrings
  /\ total = 0
  /\ destination_ip = ""
  /\ source_ip = ""
  /\ destination_port = 0
  /\ source_port = 0
  /\ Idle

\* lines 144-157
Calculate ==
  /\ pc = "calculate_checksum"
  /\ total' = calculate_checksum(header)
  /\ pc' = "checksummed"
  /\ UNCHANGED <<env, setupVars, rcvbuf, scanVars, recvVars, events>>

ChecksumNext == Calculate

ChecksumSpec == ChecksumInit /\ [][ChecksumNext]_vars

\* source ports of the range of line 67: its ends and one inside
EphemeralPorts == SourcePorts \cup {50000}

\* destination ports of the range of line 237: its ends and one inside
DestinationPorts == {1, 256, 1024}

\* a call build_header(source_ip, destination_ip, destination_port), line 64
HeaderInit ==
  /\ pc = "build_header"
  /\ source_ip \in {inet_ntoa(a) : a \in {LocalAddr, OtherAddr}}
  /\ destination_ip \in {inet_ntoa(a) : a \in {TargetAddr, LocalAddr, OtherAddr}}
  /\ destination_port \in DestinationPorts
  /\ source_port = 0
  /\ header = NoHeader
  /\ total = 0
  /\ Idle

\* lines 67-139
BuildHeader ==
  /\ pc = "build_header"
  /\ \E sp \in EphemeralPorts, seq \in SeqNumbers :
       /\ source_port' = sp
       /\ header' = build_header(source_ip, destination_ip, destination_port, sp, seq)
  /\ pc' = "built"
  /\ UNCHANGED <<total, env, setupVars, rcvbuf, open_ports, destination_port,
                 packet, recvVars, events>>

HeaderNext == BuildHeader

HeaderSpec == HeaderInit /\ [][HeaderNext]_vars

(* ------------------------------ claims -------------------------------- *)

Aborts == {"ResolutionFailed", "HostUnreachable", "PermissionDenied"}

\* states port_scanner() does not leave
Final == Aborts \cup {"Done", "UnhandledError"}

Bit(f, k) == (f \div (2 ^ k)) % 2

RECURSIVE Ascending(_)
Ascending(S) ==
  IF S = {} THEN <<>>
  ELSE LET m == CHOOSE x \in S : \A y \in S : x <= y
       IN <<m>> \o Ascending(S \ {m})

\* wall-clock ticks since receive_packet was called: the waits charged to
\* the budget plus the time spent on the packets read
Elapsed == (Timeout - time_left) + busy

\* what one wait and one packet's processing can add to the budget
Tolerance == MaxOvershoot + MaxProc

\* C1: sends and receive returns alternate, port by port in ascending
\* order: the k-th probe sent is the one for port k, and the receive for
\* port k has returned before the probe for port k+1 is sent, so at most one
\* probe is outstanding.
C1_OneOutstanding ==
  \A i \in DOMAIN events :
    events[i] = <<IF i % 2 = 1 THEN "send" ELSE "recv", (i + 1) \div 2>>

C1_Witness == Len(events) >= 3 /\ pc = "select"

\* C2: against a host that answers the probes of the ports of S with
\* SYN+ACK and every other probe with RST or not at all, a completed scan
\* prints exactly the ports of S in ascending order.
C2_EndToEnd == (pc = "Done" /\ env.quiet) => printed = Ascending(env.S)

C2_Witness ==
  /\ pc = "Done"
  /\ env.quiet
  /\ Cardinality(env.S) >= 2
  /\ Len(printed) >= 2

C4_OnlyExpectedReturned ==
  pc = "classify" =>
    /\ packet # NoPacket =>
         /\ Expected(packet)
         /\ parse_packet(packet) =
              <<destination_ip, source_ip, destination_port, source_port>>
    /\ ~sawMatch => (packet = NoPacket /\ exit_line \in {180, 196})

C4_Witness ==
  pc = "classify" /\ packet = NoPacket /\ discarded /\ exit_line = 196

\* C5: every scan ends, whatever arrives at the socket: no receive_packet
\* call (pc at "select" or "read") goes on for ever, so port_scanner()
\* reaches Done, one of the three abort states, or the exit by a send error.
C5_Terminates == <>(pc \in Final)

C5_Witness ==
  pc = "classify" /\ ~env.quiet /\ exit_line = 196 /\ discarded /\ rcvbuf # <<>>

\* C6: when receive_packet returns None, the time since it was called is
\* at least the timeout and exceeds it by no more than the tolerance.
C6_TimeoutTolerance ==
  (pc = "classify" /\ packet = NoPacket) =>
    (Elapsed >= Timeout /\ Elapsed <= Timeout + Tolerance)

\* C7 as stated: a port whose matched response has the RST bit set is not
\* appended, whatever the other bits.
C7_RstNeverOpen ==
  (pc = "loop" /\ packet # NoPacket /\ Bit(get_flags(packet), 2) = 1) =>
    destination_port \notin Range(open_ports)

\* C7 as amended: a port whose matched response has the RST bit set and
\* lacks SYN or ACK, or that got no response, is not appended.
C7_RstWithoutSynAckNeverOpen ==
  (pc = "loop" /\ destination_port >= 1) =>
    /\ packet = NoPacket => destination_port \notin Range(open_ports)
    /\ (/\ packet # NoPacket
        /\ Bit(get_flags(packet), 2) = 1
        /\ (Bit(get_flags(packet), 1) = 0 \/ Bit(get_flags(packet), 4) = 0)) =>
         destination_port \notin Range(open_ports)

C7_Witness ==
  /\ pc = "loop"
  /\ packet # NoPacket
  /\ get_flags(packet) = 20
  /\ destination_port \notin Range(open_ports)

\* C8: once a failure was reported the scan is in one of the three abort
\* states, and in an abort state no probe was sent, no port was examined
\* and nothing is reported.
C8_AbortsSendNothing ==
  (pc \in Aborts \/ message # "") =>
    /\ pc \in Aborts
    /\ events = <<>>
    /\ destination_port = 0
    /\ open_ports = <<>>
    /\ printed = <<>>

C8_Witness ==
  pc = "HostUnreachable" /\ message = MsgUnreachable /\ events = <<>>

\* C9: a scan that began probing ends only after the last port, with its
\* open ports printed: a failed send does not end it.
C9_SendFailureAbsorbed ==
  (pc \in Final /\ destination_port >= 1) =>
    (pc = "Done" /\ destination_port = LastPort /\ printed = open_ports)

\* C10: the raw socket is created at most once and is not open in any
\* final state.
C10_SocketReleased ==
  /\ acquired <= 1
  /\ pc \in Final => sock # "open"

\* the phases of port_scanner() in the order of its text; 0 is an exit
\* without a result
Phase(p) ==
  CASE p = "Resolving" -> 1
    [] p = "ReachabilityCheck" -> 2
    [] p \in {"SourceIp", "SocketAcquisition"} -> 3
    [] p \in {"loop", "send", "select", "read", "classify"} -> 4
    [] p = "Done" -> 5
    [] OTHER -> 0

\* C11: every change of the control state stays in its phase, moves to
\* the next phase, or leaves by that phase's own failure; the
\* reachability check runs with a resolved address, the socket is
\* acquired after an affirmative check, and a probe exists only with the
\* socket acquired.
C11_PhaseOrder ==
  /\ [][pc' # pc =>
         \/ Phase(pc') = Phase(pc) /\ Phase(pc) \in {3, 4}
         \/ Phase(pc') = Phase(pc) + 1 /\ Phase(pc) # 0
         \/ pc = "Resolving" /\ pc' = "ResolutionFailed"
         \/ pc = "ReachabilityCheck" /\ pc' = "HostUnreachable"
         \/ pc = "SocketAcquisition" /\ pc' = "PermissionDenied"
         \/ pc = "send" /\ pc' = "UnhandledError"]_vars
  /\ [](Phase(pc) >= 2 => destination_ip = inet_ntoa(TargetAddr) /\ message = "")
  /\ [](Phase(pc) >= 4 => sock = "open" /\ source_ip = inet_ntoa(LocalAddr))
  /\ []((pc = "send" \/ events # <<>> \/ destination_port >= 1) =>
         (acquired = 1 /\ Phase(pc) \in {0, 4, 5}))

C11_Witness ==
  pc = "Done" /\ Len(events) = 2 * LastPort /\ sock = "open"

\* the ports sent to so far
Probed == {events[i][2] : i \in {j \in DOMAIN events : events[j][1] = "send"}}

\* C12: the accumulated result is strictly ascending, holds only ports
\* of the scanned range that were already probed, and changes only by
\* gaining one port at its end.
C12_ResultAscending ==
  /\ [](/\ \A i \in DOMAIN open_ports :
             /\ open_ports[i] \in Ports
             /\ open_ports[i] \in Probed
             /\ open_ports[i] <= destination_port
        /\ \A i, j \in DOMAIN open_ports : i < j => open_ports[i] < open_ports[j])
  /\ [][/\ Len(open_ports') >= Len(open_ports)
        /\ Len(open_ports') <= Len(open_ports) + 1
        /\ SubSeq(open_ports', 1, Len(open_ports)) = open_ports]_vars

C12_Witness ==
  pc = "loop" /\ Len(open_ports) >= 2 /\ destination_port = open_ports[Len(open_ports)]

\* the 16-bit words of a byte string, a missing last low byte being zero
Words(bytes) ==
  LET padded == IF Len(bytes) % 2 = 1 THEN bytes \o <<0>> ELSE bytes
  IN [k \in 1..(Len(padded) \div 2) |-> padded[2 * k - 1] * 256 + padded[2 * k]]

\* one's-complement addition of two 16-bit words: a carry out of bit 15
\* is added back at bit 0
OnesAdd(a, b) == IF a + b > 65535 THEN a + b - 65535 ELSE a + b

RECURSIVE OnesSum(_)
OnesSum(words) ==
  IF words = <<>> THEN 0
  ELSE OnesAdd(OnesSum(SubSeq(words, 1, Len(words) - 1)), words[Len(words)])

\* C13: the value returned is a 16-bit number which, added in one's
\* complement to the sum of the big-endian words of the input, gives
\* 0xFFFF; an input of odd length gives the value of the same input with
\* a zero byte added.
C13_ChecksumComplements ==
  pc = "checksummed" =>
    /\ total \in 0..65535
    /\ OnesAdd(OnesSum(Words(header)), total) = 65535
    /\ Len(header) % 2 = 1 => total = calculate_checksum(header \o <<0>>)

C13_Witness ==
  pc = "checksummed" /\ header = <<255, 255, 255, 255, 0, 1>> /\ total = 65534

\* C14: the header returned has 20 bytes, data offset 5, the SYN flag
\* alone, acknowledgement number and urgent pointer zero, and carries in
\* its source-port field the port returned with it, which lies in
\* 49152..65535.
C14_HeaderLayout ==
  pc = "built" =>
    /\ Len(header) = 20
    /\ \A i \in DOMAIN header : header[i] \in 0..255
    /\ DataOffsetOf(header) = 5
    /\ Bit(FlagsOf(header), 1) = 1
    /\ \A k \in {0, 2, 3, 4, 5, 6, 7} : Bit(FlagsOf(header), k) = 0
    /\ AckNumberOf(header) = <<0, 0>>
    /\ UrgentPointerOf(header) = 0
    /\ source_port \in 49152..65535
    /\ SourcePortOf(header) = source_port
    /\ DestinationPortOf(header) = destination_port

C14_Witness ==
  /\ pc = "built"
  /\ source_port = 50000
  /\ destination_port = 1024
  /\ SequenceNumberOf(header) = <<65535, 65535>>
  /\ Len(header) = 20

\* C15: the port just probed is in the result exactly when the receive
\* returned a packet, that packet matches the probe, and its flag byte
\* has both the SYN and the ACK bit; the result changes in no step but
\* the classification of such a packet.
C15_AppendIffSynAck ==
  /\ []((pc = "loop" /\ destination_port >= 1) =>
         (destination_port \in Range(open_ports) <=>
            (/\ packet # NoPacket
             /\ Expected(packet)
             /\ Bit(get_flags(packet), 1) = 1
             /\ Bit(get_flags(packet), 4) = 1)))
  /\ [][open_ports' # open_ports =>
         /\ pc = "classify"
         /\ packet # NoPacket
         /\ exit_line = 193
         /\ open_ports' = Append(open_ports, destination_port)]_vars

C15_Witness ==
  /\ pc = "loop"
  /\ destination_port = LastPort
  /\ packet # NoPacket
  /\ get_flags(packet) = 18
  /\ open_ports = <<LastPort>>

\* the destination ports of the probes sent so far, in order
Sends == SelectSeq(events, LAMBDA e : e[1] = "send")

\* C16: the probes sent so far go to ports 1, 2, 3, ... once each, a
\* finished scan has sent one to every port of the range, and every
\* probe is built for the next port in the step before its send, as a
\* SYN segment carrying the source port and the sequence number drawn in
\* that step.
C16_OneProbePerPort ==
  /\ [](/\ \A i \in DOMAIN Sends : Sends[i][2] = i
        /\ Len(Sends) <= LastPort
        /\ Len(Sends) \in {destination_port, destination_port - 1})
  /\ [](pc = "Done" => Len(Sends) = LastPort)
  /\ [][pc' = "send" =>
         /\ pc = "loop"
         /\ destination_port' = destination_port + 1
         /\ source_port' \in 49152..65535
         /\ SourcePortOf(header') = source_port'
         /\ DestinationPortOf(header') = destination_port'
         /\ SequenceNumberOf(header') \in SeqNumbers
         /\ FlagsOf(header') = 2]_vars

C16_Witness ==
  /\ pc = "Done"
  /\ env.quiet
  /\ env.S = {}
  /\ open_ports = <<>>
  /\ Len(Sends) = LastPort

\* C17: a reply to an earlier port's probe that is read in a later
\* port's window is dropped by the step that reads it: no packet is
\* returned for it, the result and the budget stay as they are, and the
\* wait goes on or ends by the budget test; whatever receive_packet
\* returns, and whatever makes a port open, carries that port as its
\* source port.
C17_StaleReplyDiscarded ==
  /\ [][(pc = "read" /\ Stale(Head(rcvbuf))) =>
         /\ packet' = NoPacket
         /\ open_ports' = open_ports
         /\ time_left' = time_left
         /\ \/ pc' = "select" /\ time_left > 0
            \/ pc' = "classify" /\ exit_line' = 196 /\ time_left <= 0]_vars
  /\ []((pc = "classify" /\ sawStale /\ ~sawMatch) =>
         (packet = NoPacket /\ exit_line \in {180, 196}))
  /\ []((pc \in {"classify", "loop"} /\ packet # NoPacket) =>
         (~Stale(packet) /\ packet.tcp[1] = destination_port))
  /\ []((pc = "loop" /\ destination_port \in Range(open_ports)) =>
         (packet # NoPacket /\ packet.tcp[1] = destination_port))

C17_Witness ==
  /\ pc = "classify"
  /\ sawStale
  /\ ~sawMatch
  /\ packet = NoPacket
  /\ destination_port - 1 \in Range(open_ports)

\* C18: the budget is the timeout when receive_packet is entered, no step
\* of the call raises it, it is positive whenever select is called, and a
\* packet that does not match ends the call as soon as the budget is zero
\* or less.
C18_BudgetPositiveAtSelect ==
  /\ [](pc = "select" => time_left \in 1..Timeout)
  /\ [][(pc = "send" /\ pc' = "select") => (time_left' = Timeout)]_vars
  /\ [][(pc \in {"select", "read"}) => (time_left' <= time_left)]_vars
  /\ [][(pc = "read" /\ time_left <= 0) =>
         (pc' = "classify" /\ exit_line' \in {193, 196})]_vars

C18_Witness ==
  pc = "select" /\ discarded /\ time_left = 1 /\ rcvbuf # <<>>

\* C19: the first packet read that matches the probe is returned at
\* once, whatever its flags; when it lacks SYN or ACK the port is not in
\* the result, and what is queued behind it or arrives after it stays
\* queued, unread, until the next probe's receive.
C19_FirstMatchDecides ==
  /\ [][(pc = "read" /\ Expected(Head(rcvbuf))) =>
         /\ pc' = "classify"
         /\ packet' = Head(rcvbuf)
         /\ exit_line' = 193
         /\ SubSeq(rcvbuf', 1, Len(rcvbuf) - 1) = Tail(rcvbuf)]_vars
  /\ [][(pc \in {"classify", "loop", "send"}) => (rcvbuf' = rcvbuf)]_vars
  /\ []((/\ pc = "loop"
         /\ packet # NoPacket
         /\ (Bit(get_flags(packet), 1) = 0 \/ Bit(get_flags(packet), 4) = 0)) =>
           destination_port \notin Range(open_ports))

C19_Witness ==
  /\ pc = "loop"
  /\ destination_port \in 1..(LastPort - 1)
  /\ packet # NoPacket
  /\ get_flags(packet) = 20
  /\ rcvbuf = <<Packet(TargetAddr, LocalAddr, destination_port, source_port, SYN_ACK)>>
  /\ destination_port \notin Range(open_ports)

====
